---- MODULE Spec2Model ----
(***************************************************************************)
(* The solo-mode transcript handler that backend/fix_missing_sentences.py  *)
(* installs into soloModeHandler.js: partial tracking, accumulation of     *)
(* finals, reconciliation with the tracked partial, deduplication and the  *)
(* un-awaited translate-and-send block.                                    *)
(*                                                                         *)
(* A text is a sequence of one-character strings, so that length, slice,   *)
(* substring, trim and startsWith are computed as JavaScript computes them.*)
(***************************************************************************)
EXTENDS Integers, Sequences, FiniteSets, TLC

\* ------------------------------------------------------------------ bounds

\* Number of transcript events (partial or final) of one session.
MaxEvents == 3
\* Largest time stamp a tracked partial carries.
MaxTime == 3
\* Consecutive calls of resetPartialTracking explored.
MaxResets == 2
\* Frames the call stack holds before the engine raises RangeError.
MaxStack == 3
\* Runs of patch scripts over one handler file.
MaxRuns == 2

\* ------------------------------------------------------- program constants

\* Math.min(latestPartialText.length, 50): prefix compared by the tracker.
PartialPrefixLen == 50
\* for (let i = Math.min(minLen, 100); ...): longest suffix tried.
OverlapCap == 100
\* ...; i > 20; i--): suffixes of 20 characters or fewer are never tried.
OverlapFloor == 20
\* transcriptText.length > accumulatedFinals.length * 1.5, as a ratio 3/2.
ReplaceRatioNum == 3
ReplaceRatioDen == 2

\* ------------------------------------------------------------ input texts

HelloWor ==
    <<"h","e","l","l","o"," ","w","o","r">>
HelloWorldToday ==
    <<"h","e","l","l","o"," ","w","o","r","l","d"," ","t","o","d","a","y">>
HelloWorld ==
    <<"h","e","l","l","o"," ","w","o","r","l","d">>
HelloWorldSp ==
    <<"h","e","l","l","o"," ","w","o","r","l","d"," ">>
QuickLa ==
    <<"t","h","e"," ","q","u","i","c","k"," ","b","r","o","w","n"," ","f","o","x"," ","j","u","m","p","s"," ","o","v","e","r"," ","t","h","e"," ","l","a">>
JumpsDog ==
    <<"j","u","m","p","s"," ","o","v","e","r"," ","t","h","e"," ","l","a","z","y"," ","d","o","g">>
BrownDog ==
    <<"b","r","o","w","n"," ","f","o","x"," ","j","u","m","p","s"," ","o","v","e","r"," ","t","h","e"," ","l","a","z","y"," ","d","o","g">>
\* 61 characters: longer than the tracker's 50-character prefix window.
LongText ==
    <<"t","h","e"," ","q","u","i","c","k"," ","b","r","o","w","n"," ","f","o","x"," ","j","u","m","p","s"," ","o","v","e","r"," ","t","h","e"," ","l","a","z","y"," ","d","o","g"," ","a","n","d"," ","r","u","n","s"," ","f","a","r"," ","a","w","a","y">>
\* "the quick brown fox jumps over the lazy dog and runs fa"
LongShorter == SubSeq(LongText, 1, 55)
\* "the quick brown fox jumps over the lazy dog and runs"
LongFinal == SubSeq(LongText, 1, 52)
\* "fox jumps over the lazy dog and runs far away"
FoxAway == SubSeq(LongText, 17, 61)

TheQuickBrown ==
    <<"t","h","e"," ","q","u","i","c","k"," ","b","r","o","w","n">>
BrownFoxJumps ==
    <<"b","r","o","w","n"," ","f","o","x"," ","j","u","m","p","s">>
BrownFoxJumpsOver ==
    <<"b","r","o","w","n"," ","f","o","x"," ","j","u","m","p","s"," ","o","v","e","r">>
Hi ==
    <<"h","i">>
Hey ==
    <<"h","e","y">>
HiThere ==
    <<"h","i"," ","t","h","e","r","e"," ","h","o","w"," ","a","r","e"," ","y","o","u"," ","d","o","i","n","g"," ","t","o","d","a","y">>
FoxADog ==
    <<"t","h","e"," ","f","o","x"," ","j","u","m","p","s"," ","o","v","e","r"," ","a"," ","d","o","g">>
FoxADogToday ==
    <<"f","o","x"," ","j","u","m","p","s"," ","o","v","e","r"," ","a"," ","d","o","g"," ","t","o","d","a","y">>
\* "over the lazy dog and runs": the last 26 characters of LongFinal.
OverRuns == SubSeq(LongText, 27, 52)

\* What the recognizer may send in one session: the interim results and the
\* final results of one stretch of speech. A session draws its events from one
\* of these vocabularies.
Vocabularies ==
    << [partials |-> {HelloWor, HelloWorldToday},
        finals   |-> {HelloWorld, HelloWorldSp}],
       [partials |-> {FoxAway},
        finals   |-> {QuickLa, JumpsDog, BrownDog}],
       [partials |-> {LongText, LongShorter},
        finals   |-> {LongFinal, JumpsDog}],
       [partials |-> {HelloWorldToday},
        finals   |-> {HelloWorld, QuickLa, BrownDog}],
       [partials |-> {BrownFoxJumpsOver},
        finals   |-> {TheQuickBrown, BrownFoxJumps}],
       [partials |-> {},
        finals   |-> {Hi, Hey, HiThere}],
       [partials |-> {},
        finals   |-> {FoxADog, FoxADogToday}],
       [partials |-> {},
        finals   |-> {LongFinal, OverRuns}] >>
\* error.message of a failed translateFinal call.
FailureReasons == {<<"t","i","m","e","o","u","t">>}

\* ------------------------------------------------- JavaScript string helpers

Empty == <<>>
Space == <<" ">>

Min(a, b) == IF a < b THEN a ELSE b

SetMax(S) == CHOOSE x \in S : \A y \in S : y <= x

\* s.substring(start): from index start (clamped to the length) to the end.
SubstringFrom(s, start) == SubSeq(s, Min(start, Len(s)) + 1, Len(s))

\* s.substring(0, n)
Prefix(s, n) == SubSeq(s, 1, Min(n, Len(s)))

\* s.slice(-i), i > 0: the last i characters (all of s when i >= length).
SliceLast(s, i) == SubSeq(s, Len(s) - Min(i, Len(s)) + 1, Len(s))

\* s.startsWith(p)
StartsWith(s, p) == Len(p) <= Len(s) /\ SubSeq(s, 1, Len(p)) = p

RECURSIVE TrimStart(_)
TrimStart(s) == IF s = Empty \/ Head(s) # " " THEN s ELSE TrimStart(Tail(s))

RECURSIVE TrimEnd(_)
TrimEnd(s) ==
    IF s = Empty \/ s[Len(s)] # " " THEN s ELSE TrimEnd(SubSeq(s, 1, Len(s) - 1))

\* s.trim()
Trim(s) == TrimEnd(TrimStart(s))

\* ------------------------------------------------------------------- state

VARIABLES
    vocabulary,           \* which of the Vocabularies the recognizer draws from
    isTranscriptionOnly,  \* source language = target language
    deferredCommit,       \* a commit waits for the finalization window
    sessionEnded,         \* the speech connection of the session was closed
    latestPartialText,    \* most recent partial text tracked
    longestPartialText,   \* longest partial text tracked
    latestPartialTime,    \* time the latest partial was tracked
    now,                  \* the reading of the clock, Date.now()
    handler,              \* statements of the handler file fix_partial_reset.py wrote
    stack,                \* frames of the handler code being run, innermost last
    file,                 \* soloModeHandler.js on disk, as the patch scripts see it
    nRuns,                \* patch scripts run over the file
    longestPartialTime,   \* time the longest partial was tracked
    accumulatedFinals,    \* finals accumulated for one long phrase
    lastFinalText,        \* last processed final, for deduplication
    pendingFinalization,  \* NoFinalization or the finalization waiting for its timeout
    timers,               \* timeouts set and neither fired nor cleared
    inFlight,             \* translateFinal calls that have not returned
    messages,             \* messages handed to the transport, in order
    nextSeq,              \* sequence id sendWithSequence assigns next
    nEvents,              \* transcript events handled so far
    nCommits,             \* texts handed to dispatch
    nResets,              \* calls of resetPartialTracking made
    calls,                \* history: per commit, its text and what became of its call
    events,               \* history: the partial and final events received, in order
    latestPi,             \* history: text of the latest partial event since the last final
    prev,                 \* history: the event before the last one
    last                  \* history: what the last handler did

vars == <<vocabulary, isTranscriptionOnly, deferredCommit, sessionEnded, latestPartialText,
          longestPartialText, latestPartialTime, longestPartialTime, now,
          handler, stack, file, nRuns, accumulatedFinals, lastFinalText, pendingFinalization, timers, inFlight,
          messages, nextSeq, nEvents, nCommits, nResets, calls, events, latestPi, prev,
          last>>

\* The variables of the handlers with timed partial tracking, and the clock.
resetVars == <<longestPartialText, latestPartialTime, longestPartialTime, nResets, now,
               handler, stack, file, nRuns>>

NoEvent == [op |-> "none"]

\* ------------------------------------------------- fix_partial_reset.py

\* The statements of the handler that the script reads or writes.
ClearLatestText == "latestPartialText = ''"
ClearLongestText == "longestPartialText = ''"
ClearLatestTime == "latestPartialTime = 0"
ClearLongestTime == "longestPartialTime = 0"
LogReset == "console.log"
CallReset == "resetPartialTracking()"

\* reset_function: the body of the function the script inserts.
ResetFunction ==
    <<ClearLatestText, ClearLongestText, ClearLatestTime, ClearLongestTime, LogReset>>

\* The third re.sub: every run of the two text resets, with the two time
\* resets when they follow, becomes one call of resetPartialTracking.
RECURSIVE ReplaceManualResets(_)
ReplaceManualResets(stmts) ==
    IF stmts = <<>> THEN <<>>
    ELSE IF /\ Len(stmts) >= 2
            /\ stmts[1] = ClearLatestText
            /\ stmts[2] = ClearLongestText
         THEN LET n == IF /\ Len(stmts) >= 4
                          /\ stmts[3] = ClearLatestTime
                          /\ stmts[4] = ClearLongestTime
                       THEN 4 ELSE 2
              IN  <<CallReset>> \o ReplaceManualResets(SubSeq(stmts, n + 1, Len(stmts)))
         ELSE <<stmts[1]>> \o ReplaceManualResets(Tail(stmts))

\* The script on a handler whose place of manual resets holds site: the
\* function is inserted first, and the replacement then runs over the whole
\* content, the inserted function included.
PatchHandler(site) ==
    [resetPartialTracking |-> ReplaceManualResets(ResetFunction),
     site |-> ReplaceManualResets(site)]

\* The manual resets a handler can hold before the script runs.
ManualResetSites ==
    {<<ClearLatestText, ClearLongestText>>,
     <<ClearLatestText, ClearLongestText, ClearLatestTime, ClearLongestTime>>,
     <<ClearLatestText, LogReset, ClearLongestText>>,
     <<LogReset>>}

\* ---------------------------------- fix_missing_sentences.py, fix_partial.py

\* The texts the two scripts look for in the handler file. The first of each
\* pair is the text fix_missing_sentences.py replaces, the second the shorter
\* text fix_partial.py looks for, which the first contains.
VarsAnchor == "let currentPartialText ... // EXTREME SPEED:"
VarsLine == "let currentPartialText"
PartialAnchor == "if (isPartial) { // Live partial transcript - send original"
PartialLines == "if (isPartial) { // Live partial transcript"
FinalStartMarker == "} else { // Final transcript from Google Speech - send immediately"
FinalStart == "} else { // Final transcript from Google Speech"
FinalEndMarker == "})(); } });"
AsyncStart == "// Process final immediately"

Anchors ==
    {VarsAnchor, VarsLine, PartialAnchor, PartialLines, FinalStartMarker, FinalStart,
     FinalEndMarker, AsyncStart}

\* A text that contains a longer anchor contains the shorter one.
Consistent(anchors) ==
    /\ VarsAnchor \in anchors => VarsLine \in anchors
    /\ PartialAnchor \in anchors => PartialLines \in anchors
    /\ FinalStartMarker \in anchors => FinalStart \in anchors

\* A replacement: the anchors it destroys go, those it writes come, and the
\* patch is in the content.
Patched(content, patch, gone, written) ==
    [content EXCEPT !.anchors = (@ \ gone) \cup written,
                    !.patches = Append(@, patch)]

\* content.replace(old, new): nothing happens when old is absent.
ReplaceAt(content, anchor, patch, gone, written) ==
    IF anchor \in content.anchors THEN Patched(content, patch, gone, written)
    ELSE content

\* Replacements 1 and 2 of fix_missing_sentences.py, in memory.
TrackingReplacements(content) ==
    ReplaceAt(ReplaceAt(content, VarsAnchor, "tracking variables", {VarsAnchor}, {}),
              PartialAnchor, "partial tracking", {PartialAnchor, PartialLines}, {})

\* Mutant: the content in memory is written before the error exit.
FixMissingSentencesWritesFirst(disk) ==
    LET content == TrackingReplacements(disk)
    IN  IF FinalStartMarker \in content.anchors /\ FinalEndMarker \in content.anchors
        THEN LET new == Patched(content, "final block",
                                {FinalStartMarker, FinalEndMarker}, {FinalStart, AsyncStart})
             IN  [disk |-> new, memory |-> new, exit |-> 0]
        ELSE [disk |-> content, memory |-> content, exit |-> 1]

\* fix_missing_sentences.py on the file disk: the file it leaves, the content
\* it held in memory at the end, and its exit status.
FixMissingSentences(disk) ==
    LET content == TrackingReplacements(disk)
    IN  IF FinalStartMarker \in content.anchors /\ FinalEndMarker \in content.anchors
        THEN LET new == Patched(content, "final block",
                                {FinalStartMarker, FinalEndMarker}, {FinalStart, AsyncStart})
             IN  [disk |-> new, memory |-> new, exit |-> 0]
        ELSE [disk |-> disk, memory |-> content, exit |-> 1]

\* The line loop of fix_partial.py, in memory.
LineInsertions(content) ==
    ReplaceAt(ReplaceAt(content, VarsLine, "tracking variables", {VarsAnchor}, {}),
              PartialLines, "partial tracking", {PartialAnchor, PartialLines}, {})

\* fix_partial.py on the file disk.
FixPartial(disk) ==
    LET content == LineInsertions(disk)
    IN  IF FinalStart \in content.anchors /\ AsyncStart \in content.anchors
        THEN LET new == Patched(content, "final block", {FinalStartMarker}, {})
             IN  [disk |-> new, memory |-> new, exit |-> 0]
        ELSE [disk |-> disk, memory |-> content, exit |-> 1]

\* ------- add_reset_call.py, fix_reset_calls.py, fix_partial_reset_cleanup.py

\* The lines from the last block of checkForExtendingPartialsAfterFinal to the
\* comment after the function. IfFound is the block if (!foundExtension) {...},
\* IfFoundReset the same block with a reset call inside, OtherBlock the closing
\* brace of any other block at the same indentation.
IfFound == "if (!foundExtension) { }"
IfFoundReset == "if (!foundExtension) { resetPartialTracking(); }"
OtherBlock == "}"
Blank == ""
Comment == "// CRITICAL FIX: Reset partial tracking AFTER checking for extensions"
CloseFunction == "};"
HelperComment == "// Helper function to process final text"

\* The first line at or after i that is not blank (past the end when none).
RECURSIVE SkipBlanks(_, _)
SkipBlanks(tail, i) ==
    IF i <= Len(tail) /\ tail[i] = Blank THEN SkipBlanks(tail, i + 1) ELSE i

\* split('checkForExtendingPartialsAfterFinal')[1].split(HelperComment)[0]:
\* the text between the first and the second mention of the function. It
\* holds the end of the function when the first mention is the definition;
\* with a mention ahead of the definition it stops short of the body, and
\* without any mention the index raises.
Segment(content) ==
    IF content.mention = "definition" THEN content.tail ELSE <<>>

HasResetCall(lines) ==
    \E i \in 1..Len(lines) : lines[i] \in {CallReset, IfFoundReset}

\* The pattern of add_reset_call.py: a closing brace, the end of the function
\* and the comment on three lines that follow each other.
ExactMatches(tail) ==
    {i \in 1..Len(tail) - 2 :
        /\ tail[i] \in {IfFound, IfFoundReset, OtherBlock}
        /\ tail[i + 1] = CloseFunction
        /\ tail[i + 2] = HelperComment}

\* re.sub of add_reset_call.py: a blank line, the comment and the call go
\* between the brace and the end of the function, a blank line after the end.
SubExact(tail) ==
    IF ExactMatches(tail) = {} THEN tail
    ELSE LET i == CHOOSE m \in ExactMatches(tail) : TRUE
         IN  SubSeq(tail, 1, i)
                 \o <<Blank, Comment, CallReset, CloseFunction, Blank, HelperComment>>
                 \o SubSeq(tail, i + 3, Len(tail))

\* The pattern of the other two scripts: the block if (!foundExtension),
\* the end of the function and the comment, with any blank lines between.
LooseMatches(tail) ==
    {i \in 1..Len(tail) :
        /\ tail[i] \in {IfFound, IfFoundReset}
        /\ LET j == SkipBlanks(tail, i + 1)
               k == SkipBlanks(tail, j + 1)
           IN  /\ k <= Len(tail)
               /\ tail[j] = CloseFunction
               /\ tail[k] = HelperComment}

\* re.sub of fix_reset_calls.py and of the cleanup: the blank lines matched
\* are dropped, a blank line, the comment and the call follow the block.
SubLoose(tail) ==
    IF LooseMatches(tail) = {} THEN tail
    ELSE LET i == CHOOSE m \in LooseMatches(tail) : TRUE
             k == SkipBlanks(tail, SkipBlanks(tail, i + 1) + 1)
         IN  SubSeq(tail, 1, i)
                 \o <<Blank, Comment, CallReset, CloseFunction, HelperComment>>
                 \o SubSeq(tail, k + 1, Len(tail))

\* Mutant: the re.sub of add_reset_call.py without its guard and with a
\* pattern that takes the reset call for the line before the end.
AddResetCallAgain(disk) ==
    IF disk.mention = "none"
    THEN [disk |-> disk, memory |-> disk, exit |-> 1]
    ELSE LET j == CHOOSE m \in 1..Len(disk.tail) : disk.tail[m] = CloseFunction
             new == [disk EXCEPT !.tail = SubSeq(@, 1, j - 1) \o <<CallReset>>
                                              \o SubSeq(@, j, Len(@))]
         IN  [disk |-> new, memory |-> new, exit |-> 0]

\* add_reset_call.py on the file disk.
AddResetCall(disk) ==
    IF disk.mention = "none"
    THEN [disk |-> disk, memory |-> disk, exit |-> 1]
    ELSE LET new == IF ~HasResetCall(Segment(disk))
                    THEN [disk EXCEPT !.tail = SubExact(@)]
                    ELSE disk
         IN  [disk |-> new, memory |-> new, exit |-> 0]

\* The first re.sub of fix_reset_calls.py: a call joined to the statement
\* after it gets a line of its own.
SplitInlineCalls(content) ==
    [content EXCEPT !.callSites = IF @ = "inline" THEN "line" ELSE @]

\* re.search of fix_reset_calls.py: a reset call anywhere ahead of the end of
\* a function that the comment follows.
ResetAhead(content) ==
    content.callSites # "none" \/ HasResetCall(content.tail)

\* fix_reset_calls.py on the file disk.
FixResetCalls(disk) ==
    LET content == SplitInlineCalls(disk)
        new == IF ~ResetAhead(content)
               THEN [content EXCEPT !.tail = SubLoose(@)]
               ELSE content
    IN  [disk |-> new, memory |-> new, exit |-> 0]

\* The line loop of fix_partial_reset_cleanup.py: the first definition of
\* resetPartialTracking is kept, the others are dropped.
DropDuplicateDefinitions(content) ==
    [content EXCEPT !.resetDefs = IF @ > 1 THEN 1 ELSE @]

\* fix_partial_reset_cleanup.py on the file disk.
ResetCleanup(disk) ==
    LET content == DropDuplicateDefinitions(disk)
    IN  IF content.mention = "none"
        THEN [disk |-> disk, memory |-> content, exit |-> 1]
        ELSE LET new == IF ~HasResetCall(Segment(content))
                        THEN [content EXCEPT !.tail = SubLoose(@)]
                        ELSE content
             IN  [disk |-> new, memory |-> new, exit |-> 0]

\* The ends checkForExtendingPartialsAfterFinal can have before the scripts.
FunctionTails ==
    {<<IfFound, CloseFunction, HelperComment>>,
     <<IfFound, Blank, CloseFunction, Blank, HelperComment>>,
     <<OtherBlock, CloseFunction, HelperComment>>,
     <<IfFoundReset, CloseFunction, HelperComment>>,
     <<IfFound, Blank, Comment, CallReset, CloseFunction, HelperComment>>}

\* The handler file that holds every text the scripts look for.
UnpatchedFile ==
    [anchors |-> Anchors, patches |-> <<>>,
     tail |-> <<IfFound, CloseFunction, HelperComment>>, mention |-> "definition",
     callSites |-> "none", resetDefs |-> 0]

\* The handler file before fix_missing_sentences.py or fix_partial.py ran.
HandlerFiles ==
    {[UnpatchedFile EXCEPT !.anchors = a] : a \in {b \in SUBSET Anchors : Consistent(b)}}

\* The handler file before a script that adds the reset call ran.
ResetHandlerFiles ==
    {[UnpatchedFile EXCEPT !.tail = t, !.mention = m, !.callSites = c, !.resetDefs = d] :
        t \in FunctionTails, m \in {"none", "definition", "earlier"},
        c \in {"none", "inline", "line"}, d \in 0..2}

\* pendingFinalization = null: no timeout, no candidate.
NoFinalization == [timeout |-> 0, candidateText |-> Empty]

\* pendingFinalization && pendingFinalization.timeout
IsPending(pending) == pending.timeout # 0

\* The session after construction, committing at once or after the window.
SessionOn(deferred, handlerFile) ==
    /\ vocabulary \in DOMAIN Vocabularies
    /\ isTranscriptionOnly \in BOOLEAN
    /\ deferredCommit = deferred
    /\ sessionEnded = FALSE
    /\ latestPartialText = Empty
    /\ longestPartialText = Empty
    /\ latestPartialTime = 0
    /\ longestPartialTime = 0
    /\ now = 1
    /\ handler = PatchHandler(<<>>)
    /\ stack = <<>>
    /\ file = handlerFile
    /\ nRuns = 0
    /\ timers = {}
    /\ nResets = 0
    /\ accumulatedFinals = Empty
    /\ lastFinalText = Empty
    /\ pendingFinalization = NoFinalization
    /\ inFlight = {}
    /\ messages = <<>>
    /\ nextSeq = 1
    /\ nEvents = 0
    /\ nCommits = 0
    /\ calls = <<>>
    /\ events = <<>>
    /\ latestPi = Empty
    /\ prev = NoEvent
    /\ last = NoEvent

SessionStart(deferred) == SessionOn(deferred, UnpatchedFile)

Init == SessionStart(FALSE)

\* ---------------------------------------------------------- partial events

\* Mutant: the tracker always takes the text of the latest partial.
ObserveLatest(tracked, transcriptText) == transcriptText

\* The isPartial block: the text the tracker holds after seeing transcriptText.
Observe(tracked, transcriptText) ==
    IF \/ Len(transcriptText) > Len(tracked)
       \/ tracked = Empty
       \/ ~StartsWith(transcriptText,
                      Prefix(tracked, Min(Len(tracked), PartialPrefixLen)))
    THEN transcriptText
    ELSE tracked

\* Mutant: the partial text is also taken into the accumulation.
PartialAccumulates(transcriptText) ==
    /\ nEvents < MaxEvents
    /\ ~sessionEnded
    /\ latestPartialText' = Observe(latestPartialText, transcriptText)
    /\ accumulatedFinals' = transcriptText
    /\ latestPi' = transcriptText
    /\ events' = Append(events, [isPartial |-> TRUE, text |-> transcriptText])
    /\ nEvents' = nEvents + 1
    /\ prev' = last
    /\ last' = [op |-> "partial", text |-> transcriptText,
                trackedIn |-> latestPartialText]
    /\ UNCHANGED <<vocabulary, sessionEnded, isTranscriptionOnly, deferredCommit,
                   lastFinalText, pendingFinalization, timers, inFlight, messages,
                   nextSeq, nCommits, calls, resetVars>>

\* The isPartial block: only the tracked partial is touched.
Partial(transcriptText) ==
    /\ nEvents < MaxEvents
    /\ ~sessionEnded
    /\ latestPartialText' = Observe(latestPartialText, transcriptText)
    /\ latestPi' = transcriptText
    /\ events' = Append(events, [isPartial |-> TRUE, text |-> transcriptText])
    /\ nEvents' = nEvents + 1
    /\ prev' = last
    /\ last' = [op |-> "partial", text |-> transcriptText,
                trackedIn |-> latestPartialText]
    /\ UNCHANGED <<vocabulary, sessionEnded, isTranscriptionOnly, deferredCommit, accumulatedFinals,
                   lastFinalText, pendingFinalization, timers, inFlight, messages,
                   nextSeq, nCommits, calls, resetVars>>

PartialEvent == \E t \in Vocabularies[vocabulary].partials : Partial(t)

\* ------------------------------------------------------------ final events

\* Mutant: the search accepts a shared suffix of any length.
FindOverlapAccAnyLength(oldText, newText) ==
    IF oldText = Empty \/ newText = Empty THEN 0
    ELSE LET minLen == Min(Len(oldText), Len(newText))
             found == {i \in 1..Min(minLen, OverlapCap) :
                          StartsWith(Trim(newText), Trim(SliceLast(oldText, i)))}
         IN  IF found = {} THEN -1 ELSE Len(oldText) - SetMax(found)

\* findOverlap of the accumulation step: the position in oldText where a suffix
\* of 21..100 characters (trimmed) that newText (trimmed) starts with begins;
\* 0 when either text is empty; -1 when there is none.
FindOverlapAcc(oldText, newText) ==
    IF oldText = Empty \/ newText = Empty THEN 0
    ELSE LET minLen == Min(Len(oldText), Len(newText))
             found == {i \in (OverlapFloor + 1)..Min(minLen, OverlapCap) :
                          StartsWith(Trim(newText), Trim(SliceLast(oldText, i)))}
         IN  IF found = {} THEN -1 ELSE Len(oldText) - SetMax(found)

\* const newPart = transcriptText.substring(
\*     accumulatedFinals.length - (accumulatedFinals.length - overlapPos)).trim()
NewPart(acc, transcriptText, overlapPos) ==
    Trim(SubstringFrom(transcriptText, Len(acc) - (Len(acc) - overlapPos)))

\* Mutant: a final of exactly 1.5 times the accumulation replaces it too.
MuchLongerOrEqual(transcriptText, acc) ==
    ReplaceRatioDen * Len(transcriptText) >= ReplaceRatioNum * Len(acc)

\* transcriptText.length > accumulatedFinals.length * 1.5
MuchLonger(transcriptText, acc) ==
    ReplaceRatioDen * Len(transcriptText) > ReplaceRatioNum * Len(acc)

\* The accumulation step of the final handler: the new accumulatedFinals,
\* finalTextToProcess, and the branch taken.
Accumulate(acc, transcriptText) ==
    IF acc # Empty
    THEN LET overlapPos == FindOverlapAcc(acc, transcriptText)
             newPart == NewPart(acc, transcriptText, overlapPos)
         IN  IF overlapPos >= 0
             THEN IF newPart # Empty
                  THEN [acc |-> acc \o Space \o newPart,
                        text |-> acc \o Space \o newPart,
                        branch |-> "continuation"]
                  ELSE [acc |-> acc, text |-> acc, branch |-> "contained"]
             ELSE IF MuchLonger(transcriptText, acc)
                  THEN [acc |-> transcriptText, text |-> transcriptText,
                        branch |-> "replace"]
                  ELSE [acc |-> acc \o Space \o Trim(transcriptText),
                        text |-> acc \o Space \o Trim(transcriptText),
                        branch |-> "append"]
    ELSE [acc |-> transcriptText, text |-> transcriptText, branch |-> "first"]

\* Mutant: the partial merge accepts an overlap of any positive length.
FindOverlapPartialAnyLength(oldText, newText) ==
    IF oldText = Empty \/ newText = Empty THEN 0
    ELSE LET minLen == Min(Len(oldText), Len(newText))
             found == {i \in 1..minLen : StartsWith(newText, SliceLast(oldText, i))}
         IN  IF found = {} THEN 0 ELSE SetMax(found)

\* findOverlap of the partial merge: the length of the longest suffix of
\* oldText, of more than 20 characters, that newText starts with; 0 when none.
FindOverlapPartial(oldText, newText) ==
    IF oldText = Empty \/ newText = Empty THEN 0
    ELSE LET minLen == Min(Len(oldText), Len(newText))
             found == {i \in (OverlapFloor + 1)..minLen :
                          StartsWith(newText, SliceLast(oldText, i))}
         IN  IF found = {} THEN 0 ELSE SetMax(found)

\* if (latestPartialText && latestPartialText.length > finalTextToProcess.length)
\*   if (latestPartialText.startsWith(finalTextToProcess.trim()))
PartialExtends(partial, text) ==
    /\ partial # Empty
    /\ Len(partial) > Len(text)
    /\ StartsWith(partial, Trim(text))

\* Mutant: the handler before the patch, which never looks at the tracked partial.
ReconcileIgnoresPartial(acc, text, partial) ==
    [acc |-> acc, text |-> text, branch |-> "none"]

\* Mutant: the guard uses the partial as the text but leaves accumulatedFinals.
ReconcileKeepsAccumulator(acc, text, partial) ==
    IF partial # Empty /\ Len(partial) > Len(text)
    THEN IF PartialExtends(partial, text)
         THEN [acc |-> acc, text |-> partial, branch |-> "guard"]
         ELSE LET overlap == FindOverlapPartial(text, partial)
                  merged == Trim(text) \o Space \o Trim(SubstringFrom(partial, overlap))
              IN  IF overlap > 0 /\ Len(partial) > Len(text)
                  THEN [acc |-> merged, text |-> merged, branch |-> "merge"]
                  ELSE [acc |-> acc, text |-> text, branch |-> "none"]
    ELSE [acc |-> acc, text |-> text, branch |-> "none"]

\* The merge of finalTextToProcess with the tracked partial: the new
\* accumulatedFinals, finalTextToProcess, and the branch taken.
Reconcile(acc, text, partial) ==
    IF partial # Empty /\ Len(partial) > Len(text)
    THEN IF PartialExtends(partial, text)
         THEN [acc |-> partial, text |-> partial, branch |-> "guard"]
         ELSE LET overlap == FindOverlapPartial(text, partial)
                  merged == Trim(text) \o Space \o Trim(SubstringFrom(partial, overlap))
              IN  IF overlap > 0 /\ Len(partial) > Len(text)
                  THEN [acc |-> merged, text |-> merged, branch |-> "merge"]
                  ELSE [acc |-> acc, text |-> text, branch |-> "none"]
    ELSE [acc |-> acc, text |-> text, branch |-> "none"]

\* Mutant: the duplicate path returns without resetting the tracked partial.
KeepPartialOnDuplicate(tracked, dup) == IF dup THEN tracked ELSE Empty

\* latestPartialText = '' on the duplicate path and after lastFinalText is set.
ResetLatestPartial(tracked, dup) == Empty

\* Mutant: a final is discarded when its text equals any earlier commit.
IsDuplicateOfAnyCommit(text, lastText) ==
    \E c \in DOMAIN calls : calls[c].text = text

\* if (finalTextToProcess === lastFinalText) { ...; return; }
IsDuplicate(text, lastText) == text = lastText

\* Mutant: the sequence id is fixed when the text is committed.
SendWithCommitId(msg, seq, commit) ==
    [type |-> msg.type, originalText |-> msg.originalText,
     translatedText |-> msg.translatedText, sequenceId |-> commit, commit |-> commit]

\* What sendWithSequence hands to the transport: the message with the next
\* sequence id. commit is a history field: the index of the commit it is for.
SendWithSequence(msg, seq, commit) ==
    [type |-> msg.type, originalText |-> msg.originalText,
     translatedText |-> msg.translatedText, sequenceId |-> seq, commit |-> commit]

\* Mutant: the pass-through message repeats the transcript as originalText.
PassThroughWithOriginal(text) ==
    [type |-> "translation", originalText |-> text, translatedText |-> text]

\* The message of the isTranscriptionOnly branch.
PassThroughMessage(text) ==
    [type |-> "translation", originalText |-> Empty, translatedText |-> text]

\* A text translateFinal may return for text: the translation is external,
\* so it is a text marked as translated.
Translated(text) == <<"~">> \o text

\* The message sent when translateFinal returned.
TranslatedMessage(text, translatedText) ==
    [type |-> "translation", originalText |-> text, translatedText |-> translatedText]

\* `[Translation error: ${error.message}]`
ErrorText(reason) ==
    <<"[","T","r","a","n","s","l","a","t","i","o","n"," ","e","r","r","o","r",":"," ">>
        \o reason \o <<"]">>

\* The fallback message sent when translateFinal threw.
FallbackMessage(text, reason) ==
    [type |-> "translation", originalText |-> text, translatedText |-> ErrorText(reason)]

\* The translateFinal calls outstanding once one is started for text.
StartTranslation(outstanding, commit, text) == outstanding \cup {[commit |-> commit, text |-> text]}

\* if (pendingFinalization && pendingFinalization.timeout) { clearTimeout; = null }
CancelPending(pending) == IF IsPending(pending) THEN NoFinalization ELSE pending

\* Mutant: the cancel drops pendingFinalization without clearing its timeout.
ClearTimeoutForgotten(live, pending) == live

\* clearTimeout(pendingFinalization.timeout): the timeouts still set.
ClearTimeout(live, pending) ==
    IF IsPending(pending) THEN {t \in live : t.id # pending.timeout} ELSE live

\* The finalization scheduled for text, and the timeout set for it; id is the
\* handle setTimeout returns.
Finalization(id, text) == [timeout |-> id, candidateText |-> text]
SetTimeout(live, id, text) == live \cup {[id |-> id, candidateText |-> text]}

\* The async block that processes a text: pass-through sends at once and
\* clears accumulatedFinals; otherwise translateFinal is called and acc stays
\* until the call completes. timer is the timeout that committed, 0 for none.
Dispatch(text, acc, timer) ==
    /\ nCommits' = nCommits + 1
    /\ calls' = Append(calls,
           [text |-> text, reason |-> Empty, timer |-> timer,
            status |-> IF isTranscriptionOnly THEN "none" ELSE "pending"])
    /\ IF isTranscriptionOnly
       THEN /\ messages' = Append(messages,
                   SendWithSequence(PassThroughMessage(text), nextSeq, nCommits + 1))
            /\ nextSeq' = nextSeq + 1
            /\ accumulatedFinals' = Empty
            /\ UNCHANGED inFlight
       ELSE /\ inFlight' = StartTranslation(inFlight, nCommits + 1, text)
            /\ accumulatedFinals' = acc
            /\ UNCHANGED <<messages, nextSeq>>

\* The final branch of the transcript handler, up to the first await: a, r
\* and dup are the results of its accumulation, reconciliation and duplicate
\* check, each computed once.
Final(transcriptText) ==
    /\ nEvents < MaxEvents
    /\ ~sessionEnded
    /\ \E a \in {Accumulate(accumulatedFinals, transcriptText)} :
       \E r \in {Reconcile(a.acc, a.text, latestPartialText)} :
       \E dup \in {IsDuplicate(r.text, lastFinalText)} :
           /\ latestPartialText' = ResetLatestPartial(latestPartialText, dup)
           /\ last' = [op |-> "final", text |-> transcriptText,
                       accIn |-> accumulatedFinals, partialIn |-> latestPartialText,
                       piIn |-> latestPi, accBranch |-> a.branch, accOut |-> a.acc,
                       merged |-> a.text, recBranch |-> r.branch, out |-> r.text,
                       recAcc |-> r.acc,
                       committed |-> ~dup /\ ~deferredCommit,
                       scheduled |-> ~dup /\ deferredCommit,
                       pendingIn |-> pendingFinalization]
           /\ IF dup
              THEN /\ accumulatedFinals' = r.acc
                   /\ UNCHANGED <<lastFinalText, pendingFinalization, timers, inFlight,
                                  messages, nextSeq, nCommits, calls>>
              ELSE /\ lastFinalText' = r.text
                   /\ IF deferredCommit
                      THEN /\ pendingFinalization' = Finalization(nEvents + 1, r.text)
                           /\ timers' = SetTimeout(
                                  ClearTimeout(timers, pendingFinalization),
                                  nEvents + 1, r.text)
                           /\ accumulatedFinals' = r.acc
                           /\ UNCHANGED <<inFlight, messages, nextSeq, nCommits, calls>>
                      ELSE /\ pendingFinalization' = CancelPending(pendingFinalization)
                           /\ timers' = ClearTimeout(timers, pendingFinalization)
                           /\ Dispatch(r.text, r.acc, 0)
    /\ latestPi' = Empty
    /\ events' = Append(events, [isPartial |-> FALSE, text |-> transcriptText])
    /\ nEvents' = nEvents + 1
    /\ prev' = last
    /\ UNCHANGED <<vocabulary, sessionEnded, isTranscriptionOnly, deferredCommit, resetVars>>

\* Mutant: the handler awaits the translation, so a final is taken only when
\* no call is outstanding.
FinalEventWhenIdle ==
    /\ inFlight = {}
    /\ \E t \in Vocabularies[vocabulary].finals : Final(t)

FinalEvent == \E t \in Vocabularies[vocabulary].finals : Final(t)

\* ------------------------------------------- completion of a translation call

\* The continuation after await translateFinal(...) returned translatedText.
TranslateReturns(call) ==
    /\ call \in inFlight
    /\ inFlight' = inFlight \ {call}
    /\ messages' = Append(messages,
           SendWithSequence(TranslatedMessage(call.text, Translated(call.text)),
                            nextSeq, call.commit))
    /\ nextSeq' = nextSeq + 1
    /\ accumulatedFinals' = Empty
    /\ calls' = [calls EXCEPT ![call.commit].status = "returned"]
    /\ UNCHANGED <<vocabulary, sessionEnded, events, isTranscriptionOnly, deferredCommit, latestPartialText,
                   lastFinalText, pendingFinalization, timers, nEvents, nCommits,
                   latestPi, prev, last, resetVars>>

\* Mutant: the catch block only logs the error and sends nothing.
TranslateThrowsSilently(call, reason) ==
    /\ call \in inFlight
    /\ inFlight' = inFlight \ {call}
    /\ accumulatedFinals' = Empty
    /\ calls' = [calls EXCEPT ![call.commit].status = "failed",
                              ![call.commit].reason = reason]
    /\ UNCHANGED <<vocabulary, sessionEnded, events, isTranscriptionOnly, deferredCommit, latestPartialText,
                   lastFinalText, pendingFinalization, timers, messages, nextSeq,
                   nEvents, nCommits, latestPi, prev, last, resetVars>>

\* The catch block after await translateFinal(...) threw an error.
TranslateThrows(call, reason) ==
    /\ call \in inFlight
    /\ inFlight' = inFlight \ {call}
    /\ messages' = Append(messages,
           SendWithSequence(FallbackMessage(call.text, reason), nextSeq, call.commit))
    /\ nextSeq' = nextSeq + 1
    /\ accumulatedFinals' = Empty
    /\ calls' = [calls EXCEPT ![call.commit].status = "failed",
                              ![call.commit].reason = reason]
    /\ UNCHANGED <<vocabulary, sessionEnded, events, isTranscriptionOnly, deferredCommit, latestPartialText,
                   lastFinalText, pendingFinalization, timers, nEvents, nCommits,
                   latestPi, prev, last, resetVars>>

TranslationDone == \E call \in inFlight : TranslateReturns(call)

TranslationFailed == \E call \in inFlight : \E reason \in FailureReasons :
                         TranslateThrows(call, reason)

Next == PartialEvent \/ FinalEvent \/ TranslationDone \/ TranslationFailed

Spec == Init /\ [][Next]_vars

\* ------------------------------------------------ deferred-commit mode

\* The timeout t expires: its finalization is no longer pending and its
\* candidate text is processed as it is.
FinalizationExpires(t) ==
    /\ t \in timers
    /\ timers' = timers \ {t}
    /\ pendingFinalization' = NoFinalization
    /\ Dispatch(t.candidateText, accumulatedFinals, t.id)
    /\ prev' = last
    /\ last' = [op |-> "expire", timer |-> t.id, text |-> t.candidateText]
    /\ UNCHANGED <<vocabulary, sessionEnded, events, isTranscriptionOnly, deferredCommit, latestPartialText,
                   lastFinalText, nEvents, latestPi, resetVars>>

FinalizationTimeout == \E t \in timers : FinalizationExpires(t)

InitDeferred == SessionStart(TRUE)

NextDeferred ==
    PartialEvent \/ FinalEvent \/ TranslationDone \/ TranslationFailed
        \/ FinalizationTimeout

SpecDeferred == InitDeferred /\ [][NextDeferred]_vars

\* The vocabularies of the sessions followed to the end of their timeouts: with
\* trailing white space, with partials that outgrow the finals, and with a
\* final contained in the accumulation.
FairVocabularies == {1, 3, 8}

InitDeferredFair == InitDeferred /\ vocabulary \in FairVocabularies

\* A timeout that stays set expires: the timer queue of the runtime runs it.
SpecDeferredFair ==
    InitDeferredFair /\ [][NextDeferred]_vars /\ WF_vars(FinalizationTimeout)

\* ---------------------------------------------------------- session end

\* The closure variables of the session the handlers share.
SessionState ==
    [isTranscriptionOnly |-> isTranscriptionOnly, deferredCommit |-> deferredCommit,
     latestPartialText |-> latestPartialText, longestPartialText |-> longestPartialText,
     latestPartialTime |-> latestPartialTime, longestPartialTime |-> longestPartialTime,
     accumulatedFinals |-> accumulatedFinals, lastFinalText |-> lastFinalText,
     pendingFinalization |-> pendingFinalization, timers |-> timers,
     inFlight |-> inFlight, messages |-> messages, nextSeq |-> nextSeq]

\* What reading a property of transcriptText raises: nothing for a string, a
\* TypeError when the event carried no text (transcriptText is undefined).
ReadText(hasText) == IF hasText THEN "none" ELSE "TypeError"

\* An event without text reaches the handler. The partial block reads
\* transcriptText.length in its first condition and the final block reads
\* transcriptText.substring in its first statement: the handler throws before
\* it assigns anything.
Malformed(isPartial) ==
    /\ nEvents < MaxEvents
    /\ ~sessionEnded
    /\ nEvents' = nEvents + 1
    /\ prev' = last
    /\ UNCHANGED <<vocabulary, sessionEnded, events, isTranscriptionOnly, deferredCommit,
                   latestPartialText, accumulatedFinals, lastFinalText,
                   pendingFinalization, timers, inFlight, messages, nextSeq,
                   nCommits, calls, latestPi, resetVars>>
    /\ last' = [op |-> "malformed", isPartial |-> isPartial,
                raised |-> ReadText(FALSE), before |-> SessionState,
                after |-> SessionState']

MalformedEvent == \E isPartial \in BOOLEAN : Malformed(isPartial)

\* The session ends: no transcript event arrives any more and the pending
\* finalization is cancelled. The translateFinal calls that are outstanding
\* are not cancelled; their continuations run when they complete.
SessionEnd ==
    /\ ~sessionEnded
    /\ sessionEnded' = TRUE
    /\ timers' = ClearTimeout(timers, pendingFinalization)
    /\ pendingFinalization' = CancelPending(pendingFinalization)
    /\ prev' = last
    /\ last' = [op |-> "end", sent |-> Len(messages), outstanding |-> inFlight,
                pendingIn |-> pendingFinalization]
    /\ UNCHANGED <<vocabulary, isTranscriptionOnly, deferredCommit, latestPartialText,
                   accumulatedFinals, lastFinalText, inFlight, messages, nextSeq,
                   nEvents, nCommits, calls, events, latestPi, resetVars>>

\* A session in either commit mode.
InitSession == \E deferred \in BOOLEAN : SessionStart(deferred)

NextSession ==
    PartialEvent \/ FinalEvent \/ TranslationDone \/ TranslationFailed
        \/ FinalizationTimeout \/ SessionEnd \/ MalformedEvent

SpecSession == InitSession /\ [][NextSession]_vars

\* ------------------------------------------------- resetPartialTracking

\* Mutant: the reset before the times were tracked; it clears the texts only.
ResetTextsOnly(s) ==
    [s EXCEPT !.latestPartialText = Empty, !.longestPartialText = Empty]

\* const resetPartialTracking = () => { ... }: the session it leaves.
ResetPartialTracking(s) ==
    [s EXCEPT !.latestPartialText = Empty, !.longestPartialText = Empty,
              !.latestPartialTime = 0, !.longestPartialTime = 0]

\* The tracker states a session can be in: nothing tracked (texts empty, times
\* zero), or a latest partial with its time and a longest partial that is at
\* least as long and was tracked no later.
TrackerStates ==
    {t \in [latestPartialText : {Empty, HelloWor, HelloWorldToday},
            longestPartialText : {Empty, HelloWor, HelloWorldToday},
            latestPartialTime : 0..MaxTime, longestPartialTime : 0..MaxTime] :
        /\ (t.latestPartialText = Empty) <=> (t.latestPartialTime = 0)
        /\ (t.longestPartialText = Empty) <=> (t.longestPartialTime = 0)
        /\ (t.latestPartialText = Empty) <=> (t.longestPartialText = Empty)
        /\ Len(t.longestPartialText) >= Len(t.latestPartialText)
        /\ t.longestPartialTime <= t.latestPartialTime}

\* A session at a point where resetPartialTracking may be called: any tracker
\* state, with or without text accumulated and committed; site is what stood
\* at the handler's manual resets.
ResetPoint(site) ==
    /\ vocabulary = 1
    /\ isTranscriptionOnly \in BOOLEAN
    /\ deferredCommit = FALSE
    /\ sessionEnded = FALSE
    /\ \E t \in TrackerStates :
          /\ latestPartialText = t.latestPartialText
          /\ longestPartialText = t.longestPartialText
          /\ latestPartialTime = t.latestPartialTime
          /\ longestPartialTime = t.longestPartialTime
    /\ now = MaxTime
    /\ handler = PatchHandler(site)
    /\ stack = <<>>
    /\ file = UnpatchedFile
    /\ nRuns = 0
    /\ accumulatedFinals \in {Empty, HelloWorld}
    /\ lastFinalText \in {Empty, HelloWorld}
    /\ pendingFinalization = NoFinalization
    /\ timers = {}
    /\ inFlight \in {{}, {[commit |-> 1, text |-> HelloWorld]}}
    /\ messages = <<>>
    /\ nextSeq = 1
    /\ nEvents = 0
    /\ nCommits = 0
    /\ nResets = 0
    /\ calls = <<>>
    /\ events = <<>>
    /\ latestPi = Empty
    /\ prev = NoEvent
    /\ last = NoEvent

InitReset == ResetPoint(<<>>)

\* One call of resetPartialTracking().
ResetCall ==
    /\ nResets < MaxResets
    /\ LET s == ResetPartialTracking(SessionState)
       IN  /\ isTranscriptionOnly' = s.isTranscriptionOnly
           /\ deferredCommit' = s.deferredCommit
           /\ latestPartialText' = s.latestPartialText
           /\ longestPartialText' = s.longestPartialText
           /\ latestPartialTime' = s.latestPartialTime
           /\ longestPartialTime' = s.longestPartialTime
           /\ accumulatedFinals' = s.accumulatedFinals
           /\ lastFinalText' = s.lastFinalText
           /\ pendingFinalization' = s.pendingFinalization
           /\ timers' = s.timers
           /\ inFlight' = s.inFlight
           /\ messages' = s.messages
           /\ nextSeq' = s.nextSeq
    /\ nResets' = nResets + 1
    /\ prev' = last
    /\ last' = [op |-> "reset", before |-> SessionState]
    /\ UNCHANGED <<vocabulary, sessionEnded, events, nEvents, nCommits, calls, latestPi,
                   now, handler, stack, file, nRuns>>

NextReset == ResetCall

SpecReset == InitReset /\ [][NextReset]_vars

\* ------------------------------------------------- timed partial tracking

\* The age below which the final handler still trusts the tracked partial.
FreshWindow == 500

\* The clock advances by a moment or by a whole window; Elapsed counts the
\* advances behind a reading, which MaxTime caps.
Elapsed(t) == ((t - 1) % FreshWindow) + ((t - 1) \div FreshWindow)

Tick ==
    /\ \E d \in {1, FreshWindow} :
          /\ Elapsed(now + d) <= MaxTime
          /\ now' = now + d
    /\ UNCHANGED <<vocabulary, isTranscriptionOnly, deferredCommit, sessionEnded,
                   latestPartialText, longestPartialText, latestPartialTime,
                   longestPartialTime, accumulatedFinals, lastFinalText,
                   pendingFinalization, timers, inFlight, messages, nextSeq, nEvents,
                   nCommits, nResets, calls, events, latestPi, prev, last, handler,
                   stack, file, nRuns>>

\* Mutant: the time stored is the age of the partial it replaces.
TrackLatestAge(tracked, time, transcriptText, clock) ==
    IF tracked = Empty \/ Len(transcriptText) > Len(tracked)
    THEN [text |-> transcriptText, time |-> clock - time]
    ELSE [text |-> tracked, time |-> time]

\* if (!latestPartialText || transcriptText.length > latestPartialText.length)
\* { latestPartialText = transcriptText; latestPartialTime = Date.now(); }
TrackLatest(tracked, time, transcriptText, clock) ==
    IF tracked = Empty \/ Len(transcriptText) > Len(tracked)
    THEN [text |-> transcriptText, time |-> clock]
    ELSE [text |-> tracked, time |-> time]

TimedPartial(transcriptText) ==
    /\ nEvents < MaxEvents
    /\ \E t \in {TrackLatest(latestPartialText, latestPartialTime, transcriptText, now)} :
          /\ latestPartialText' = t.text
          /\ latestPartialTime' = t.time
          /\ last' = [op |-> "timedPartial", text |-> transcriptText,
                      replaced |-> (t.text = transcriptText /\ latestPartialText # transcriptText),
                      timeIn |-> latestPartialTime, at |-> now]
    /\ nEvents' = nEvents + 1
    /\ prev' = last
    /\ UNCHANGED <<vocabulary, isTranscriptionOnly, deferredCommit, sessionEnded,
                   longestPartialText, longestPartialTime, now, accumulatedFinals,
                   lastFinalText, pendingFinalization, timers, inFlight, messages,
                   nextSeq, nCommits, nResets, calls, events, latestPi, handler, stack,
                   file, nRuns>>

TimedPartialEvent == \E t \in Vocabularies[vocabulary].partials : TimedPartial(t)

\* The final handler's check: a longer partial tracked less than FreshWindow
\* ago is used in place of the final text.
PreferPartial(transcriptText, tracked, time, clock) ==
    IF tracked # Empty /\ Len(tracked) > Len(transcriptText)
       /\ clock - time < FreshWindow
    THEN tracked
    ELSE transcriptText

\* The final handler: the text is chosen and latestPartialText is cleared; the
\* stored time stays.
TimedFinal(transcriptText) ==
    /\ nEvents < MaxEvents
    /\ latestPartialText' = Empty
    /\ nEvents' = nEvents + 1
    /\ prev' = last
    /\ last' = [op |-> "timedFinal", text |-> transcriptText,
                out |-> PreferPartial(transcriptText, latestPartialText,
                                      latestPartialTime, now),
                timeIn |-> latestPartialTime, at |-> now]
    /\ UNCHANGED <<vocabulary, isTranscriptionOnly, deferredCommit, sessionEnded,
                   longestPartialText, latestPartialTime, longestPartialTime, now,
                   accumulatedFinals, lastFinalText, pendingFinalization, timers, inFlight, messages,
                   nextSeq, nCommits, nResets, calls, events, latestPi, handler, stack,
                   file, nRuns>>

TimedFinalEvent == \E t \in Vocabularies[vocabulary].finals : TimedFinal(t)

InitTimed ==
    /\ SessionStart(FALSE)
    /\ vocabulary = 1
    /\ isTranscriptionOnly = TRUE

NextTimed == Tick \/ TimedPartialEvent \/ TimedFinalEvent \/ ResetCall

SpecTimed == InitTimed /\ [][NextTimed]_vars

\* ------------------------------------------- running the patched handler

\* The variables no statement of the patched reset code touches.
sessionVars == <<vocabulary, isTranscriptionOnly, deferredCommit, sessionEnded, now,
                 handler, file, nRuns, accumulatedFinals, lastFinalText, pendingFinalization, timers,
                 inFlight, messages, nextSeq, nEvents, nCommits, calls, events, latestPi>>

trackerVars == <<latestPartialText, longestPartialText, latestPartialTime,
                 longestPartialTime>>

Frame(fn, pc) == [fn |-> fn, pc |-> pc]

Top == stack[Len(stack)]

\* The statement the innermost frame is at, or "return" past the last one.
Statement ==
    IF Top.pc > Len(handler[Top.fn]) THEN "return" ELSE handler[Top.fn][Top.pc]

Advance == [stack EXCEPT ![Len(stack)] = Frame(Top.fn, Top.pc + 1)]

\* The handler reaches the code at fn: the reset function or the place where
\* the manual resets stood.
Invoke(fn) ==
    /\ stack = <<>>
    /\ nResets < MaxResets
    /\ nResets' = nResets + 1
    /\ stack' = <<Frame(fn, 1)>>
    /\ prev' = last
    /\ last' = [op |-> "invoke", fn |-> fn, before |-> SessionState]
    /\ UNCHANGED <<sessionVars, trackerVars>>

InvokeEvent == \E fn \in {"resetPartialTracking", "site"} : Invoke(fn)

\* One assignment or log statement.
Execute ==
    /\ stack # <<>>
    /\ Statement \in {ClearLatestText, ClearLongestText, ClearLatestTime,
                      ClearLongestTime, LogReset}
    /\ latestPartialText' = IF Statement = ClearLatestText THEN Empty ELSE latestPartialText
    /\ longestPartialText' = IF Statement = ClearLongestText THEN Empty ELSE longestPartialText
    /\ latestPartialTime' = IF Statement = ClearLatestTime THEN 0 ELSE latestPartialTime
    /\ longestPartialTime' = IF Statement = ClearLongestTime THEN 0 ELSE longestPartialTime
    /\ stack' = Advance
    /\ UNCHANGED <<sessionVars, nResets, prev, last>>

\* resetPartialTracking(); with room on the stack: a new frame.
Call ==
    /\ stack # <<>>
    /\ Statement = CallReset
    /\ Len(stack) < MaxStack
    /\ stack' = Append(Advance, Frame("resetPartialTracking", 1))
    /\ UNCHANGED <<sessionVars, trackerVars, nResets, prev, last>>

\* resetPartialTracking(); with the stack full: RangeError unwinds every frame.
Overflow ==
    /\ stack # <<>>
    /\ Statement = CallReset
    /\ Len(stack) >= MaxStack
    /\ stack' = <<>>
    /\ prev' = last
    /\ last' = [op |-> "ran", fn |-> stack[1].fn, outcome |-> "RangeError",
                before |-> last.before]
    /\ UNCHANGED <<sessionVars, trackerVars, nResets>>

\* The end of a body: the frame returns to its caller.
Return ==
    /\ stack # <<>>
    /\ Statement = "return"
    /\ stack' = SubSeq(stack, 1, Len(stack) - 1)
    /\ IF Len(stack) = 1
       THEN /\ prev' = last
            /\ last' = [op |-> "ran", fn |-> Top.fn, outcome |-> "returned",
                        before |-> last.before]
       ELSE UNCHANGED <<prev, last>>
    /\ UNCHANGED <<sessionVars, trackerVars, nResets>>

\* A session running the handler the script produced from one with the
\* manual resets of site.
InitPatched == \E site \in ManualResetSites : ResetPoint(site)

NextPatched == InvokeEvent \/ Execute \/ Call \/ Overflow \/ Return

SpecPatched == InitPatched /\ [][NextPatched]_vars

\* ------------------------------------------------ running patch scripts

\* The session whose handler file the scripts patch is not running.
runtimeVars == <<vocabulary, isTranscriptionOnly, deferredCommit, sessionEnded,
                 latestPartialText, longestPartialText, latestPartialTime,
                 longestPartialTime, now, handler, stack, accumulatedFinals,
                 lastFinalText, pendingFinalization, timers, inFlight, messages,
                 nextSeq, nEvents, nCommits, nResets, calls, events, latestPi>>

\* One run of a script whose effect on the file is run.
RunScript(name, run) ==
    /\ nRuns < MaxRuns
    /\ nRuns' = nRuns + 1
    /\ file' = run.disk
    /\ prev' = last
    /\ last' = [op |-> "script", name |-> name, exit |-> run.exit, before |-> file,
                memory |-> run.memory]
    /\ UNCHANGED runtimeVars

RunFixMissingSentences == RunScript("fix_missing_sentences.py", FixMissingSentences(file))

RunFixPartial == RunScript("fix_partial.py", FixPartial(file))

InitScripts ==
    /\ \E f \in HandlerFiles : SessionOn(FALSE, f)
    /\ vocabulary = 1
    /\ isTranscriptionOnly = TRUE

NextScripts == RunFixMissingSentences \/ RunFixPartial

SpecScripts == InitScripts /\ [][NextScripts]_vars

RunAddResetCall == RunScript("add_reset_call.py", AddResetCall(file))

RunFixResetCalls == RunScript("fix_reset_calls.py", FixResetCalls(file))

RunResetCleanup == RunScript("fix_partial_reset_cleanup.py", ResetCleanup(file))

InitResetScripts ==
    /\ \E f \in ResetHandlerFiles : SessionOn(FALSE, f)
    /\ vocabulary = 1
    /\ isTranscriptionOnly = TRUE

NextResetScripts == RunAddResetCall \/ RunFixResetCalls \/ RunResetCleanup

SpecResetScripts == InitResetScripts /\ [][NextResetScripts]_vars

\* ------------------------------------------------------------------ claims

\* p occurs in s as a contiguous substring.
Contains(s, p) ==
    \E i \in 0..(Len(s) - Len(p)) : SubSeq(s, i + 1, i + Len(p)) = p

\* The last handler ran for a final event.
LastIsFinal == last.op = "final"

\* C1 (as stated): after partial events and a final F handled with an empty
\* accumulator, if the latest partial event's text is longer than F and starts
\* with F trimmed, the committed text is that latest partial's text.
C1_LatestPartialCommitted ==
    (/\ LastIsFinal
     /\ last.accIn = Empty
     /\ Len(last.piIn) > Len(last.text)
     /\ StartsWith(last.piIn, Trim(last.text))
     /\ last.committed)
    => (last.out = last.piIn /\ lastFinalText = last.piIn)

\* C1 (amended): after partial events and a final F handled with an empty
\* accumulator, if the tracked partial text (latestPartialText) is longer than
\* F and starts with F trimmed, the committed text is the tracked partial text.
C1_TrackedPartialCommitted ==
    (/\ LastIsFinal
     /\ last.accIn = Empty
     /\ Len(last.partialIn) > Len(last.text)
     /\ StartsWith(last.partialIn, Trim(last.text))
     /\ last.committed)
    => (/\ last.out = last.partialIn
        /\ lastFinalText = last.partialIn
        /\ calls[nCommits].text = last.partialIn)

\* A final with trailing white space was committed as the longer tracked partial.
C1_Witness ==
    /\ LastIsFinal
    /\ prev.op = "partial"
    /\ last.accIn = Empty
    /\ Len(last.partialIn) > Len(last.text)
    /\ StartsWith(last.partialIn, Trim(last.text))
    /\ Trim(last.text) # last.text
    /\ last.committed
    /\ calls[nCommits].text = last.partialIn

\* C2: of two consecutive final events carrying the same text, with no partial
\* event between them, the second is discarded as a duplicate, so the pair
\* leads to one outbound message and not two.
C2_SecondFinalDiscarded ==
    (/\ LastIsFinal
     /\ prev.op = "final"
     /\ prev.text = last.text)
    => ~last.committed

\* C3: the sequence ids of the emitted messages are consecutive, in the order
\* of emission.
C3_SequenceIdsConsecutive ==
    \A i \in 1..Len(messages) :
        messages[i].sequenceId = messages[1].sequenceId + (i - 1)

\* Three messages were emitted, and not in the order of their commits.
C3_Witness ==
    /\ Len(messages) = 3
    /\ \E i \in 1..2 : messages[i].commit > messages[i + 1].commit

\* C4: messages are emitted in the order in which their texts were committed.
C4_OrderedDelivery ==
    \A i, j \in 1..Len(messages) :
        i < j => messages[i].commit < messages[j].commit

\* C5: at most one translation call is outstanding at any moment.
C5_SingleInFlight == Cardinality(inFlight) <= 1

\* C6: the text committed for a final event contains the final's trimmed text
\* as a contiguous substring.
C6_LossFree ==
    (LastIsFinal /\ last.committed) => Contains(last.out, Trim(last.text))

\* The indices of the messages emitted for commit c.
MessagesOf(c) == {i \in 1..Len(messages) : messages[i].commit = c}

\* C7: a commit whose translation call failed has exactly one message, with
\* the committed text as originalText and the error indicator embedding the
\* failure reason as translatedText; every commit has exactly one message once
\* its call has ended, and none while the call is outstanding.
C7_FailureKeepsTranscript ==
    /\ Len(calls) = nCommits
    /\ \A c \in 1..nCommits :
        /\ calls[c].status = "pending" =>
               /\ MessagesOf(c) = {}
               /\ [commit |-> c, text |-> calls[c].text] \in inFlight
        /\ calls[c].status # "pending" => Cardinality(MessagesOf(c)) = 1
        /\ calls[c].status = "failed" =>
               \A i \in MessagesOf(c) :
                   /\ messages[i].originalText = calls[c].text
                   /\ messages[i].translatedText = ErrorText(calls[c].reason)
                   /\ Contains(messages[i].translatedText, calls[c].reason)

\* A translation call failed, another one returned, and both have their message.
C7_Witness ==
    /\ \E c \in 1..nCommits :
           /\ calls[c].status = "failed"
           /\ \E i \in MessagesOf(c) : messages[i].originalText = calls[c].text
    /\ \E c \in 1..nCommits : calls[c].status = "returned"

\* C8: in pass-through mode every commit of text T has emitted one message
\* with originalText empty and translatedText = T, and no translation call
\* was started.
C8_PassThrough ==
    isTranscriptionOnly =>
        /\ inFlight = {}
        /\ \A c \in 1..nCommits :
            /\ calls[c].status = "none"
            /\ Cardinality(MessagesOf(c)) = 1
            /\ \A i \in MessagesOf(c) :
                   /\ messages[i].originalText = Empty
                   /\ messages[i].translatedText = calls[c].text

\* Two texts were committed in pass-through mode.
C8_Witness ==
    /\ isTranscriptionOnly
    /\ nCommits = 2
    /\ Len(messages) = 2
    /\ messages[2].translatedText = lastFinalText

\* The k of the accumulator's continuation rule: the largest k in 21..100 such
\* that the last k characters of acc are the first k characters of finalText;
\* 0 when there is none.
ContinuationK(acc, finalText) ==
    LET ks == {k \in 21..100 :
                  /\ k <= Len(acc)
                  /\ k <= Len(finalText)
                  /\ SubSeq(acc, Len(acc) - k + 1, Len(acc)) = SubSeq(finalText, 1, k)}
    IN  IF ks = {} THEN 0 ELSE SetMax(ks)

\* The trimmed remainder of finalText after its first k characters.
Remainder(finalText, k) == Trim(SubSeq(finalText, k + 1, Len(finalText)))

\* C9: when the accumulation is not empty and shares k characters (k the
\* largest in 21..100) with the start of the final, accumulate leaves the old
\* accumulation, one space, and the trimmed rest of the final after its first
\* k characters. Stated for a final that has such a rest: a final that ends
\* with the shared characters adds nothing.
C9_Continuation ==
    (/\ LastIsFinal
     /\ last.accIn # Empty
     /\ ContinuationK(last.accIn, last.text) > 0
     /\ Remainder(last.text, ContinuationK(last.accIn, last.text)) # Empty)
    => last.accOut =
           last.accIn \o Space
               \o Remainder(last.text, ContinuationK(last.accIn, last.text))

\* "the quick brown fox jumps over the lazy dog"
QuickDog == SubSeq(LongText, 1, 43)

\* C10 (as stated): accumulating "jumps over the lazy dog" onto "the quick
\* brown fox jumps over the la" yields "the quick brown fox jumps over the
\* lazy dog".
C10_ExampleMerged ==
    (LastIsFinal /\ last.accIn = QuickLa /\ last.text = JumpsDog)
    => last.accOut = QuickDog

\* C10 (amended): the two texts share 17 characters, fewer than 21, so the
\* final is appended: the result is "the quick brown fox jumps over the la
\* jumps over the lazy dog".
C10_ExampleAppended ==
    (LastIsFinal /\ last.accIn = QuickLa /\ last.text = JumpsDog)
    => (/\ last.accBranch = "append"
        /\ last.accOut = QuickLa \o Space \o JumpsDog)

\* The example's final was handled with the example's accumulation.
C10_Witness ==
    /\ LastIsFinal
    /\ last.accIn = QuickLa
    /\ last.text = JumpsDog
    /\ last.accOut = QuickLa \o Space \o JumpsDog

\* The length of the longest suffix of acc that is a prefix of finalText; 0
\* when they share none.
LongestOverlap(acc, finalText) ==
    LET ks == {k \in 1..Min(Len(acc), Len(finalText)) :
                  SubSeq(acc, Len(acc) - k + 1, Len(acc)) = SubSeq(finalText, 1, k)}
    IN  IF ks = {} THEN 0 ELSE SetMax(ks)

\* finalText is not longer than 1.5 times acc.
NotLonger(finalText, acc) == 2 * Len(finalText) <= 3 * Len(acc)

\* The accumulation step found an overlap (with or without a new part).
TookContinuation == last.accBranch \in {"continuation", "contained"}

NoTrimmedOverlap(acc, finalText) ==
    \A k \in (OverlapFloor + 1)..OverlapCap :
        (k <= Len(acc) /\ k <= Len(finalText))
        => ~StartsWith(Trim(finalText), Trim(SubSeq(acc, Len(acc) - k + 1, Len(acc))))

PartialMergeCase ==
    /\ LastIsFinal
    /\ Len(last.partialIn) > Len(last.merged)
    /\ ~StartsWith(last.partialIn, Trim(last.merged))

CommitsBefore == IF LastIsFinal /\ last.committed THEN nCommits - 1 ELSE nCommits

\* C15: a final event handled after a commit finds accumulatedFinals empty, in
\* pass-through and in translation mode, whenever the translation completes.
C15_AccumulatorEmptyAfterCommit ==
    (LastIsFinal /\ CommitsBefore > 0) => last.accIn = Empty

\* C17: while a translation call is outstanding, the next event the recognizer
\* delivers, partial or final, is handled at once (up to the number of events
\* explored).
C17_IntakeNotBlocked ==
    (inFlight # {} /\ nEvents < MaxEvents)
    => (/\ ENABLED FinalEvent
        /\ Vocabularies[vocabulary].partials # {} => ENABLED PartialEvent)

\* A partial was tracked and a final committed while the call of an earlier
\* commit was still outstanding.
C17_Witness ==
    /\ LastIsFinal
    /\ last.committed
    /\ prev.op = "partial"
    /\ last.partialIn # Empty
    /\ \E c \in inFlight : c.commit < nCommits /\ calls[c.commit].status = "pending"

\* C16: after resetPartialTracking the tracked texts are empty and the tracked
\* times zero, every other variable of the session is as it was before the
\* call, and a second call in a row leaves the state the first call left.
C16_ResetIdempotent ==
    last.op = "reset"
    => (/\ latestPartialText = Empty
        /\ longestPartialText = Empty
        /\ latestPartialTime = 0
        /\ longestPartialTime = 0
        /\ \A f \in DOMAIN SessionState \ {"latestPartialText", "longestPartialText",
                                            "latestPartialTime", "longestPartialTime"} :
              SessionState[f] = last.before[f]
        /\ prev.op = "reset" => SessionState = last.before)

\* resetPartialTracking ran twice in a row on a session that tracked partials
\* and held accumulated text and an outstanding call.
C16_Witness ==
    /\ last.op = "reset"
    /\ prev.op = "reset"
    /\ prev.before.latestPartialText # Empty
    /\ Len(prev.before.longestPartialText) > Len(prev.before.latestPartialText)
    /\ prev.before.latestPartialTime > prev.before.longestPartialTime
    /\ prev.before.accumulatedFinals # Empty
    /\ prev.before.inFlight # {}
    /\ SessionState = last.before

\* C18: in every reachable state at most one finalization timeout is set, and
\* it is the one pendingFinalization holds.
C18_SinglePendingFinalization ==
    /\ Cardinality(timers) <= 1
    /\ \A t \in timers :
          IsPending(pendingFinalization) /\ pendingFinalization.timeout = t.id

\* A final arrived while a finalization was pending and scheduled its own.
C18_Witness ==
    /\ LastIsFinal
    /\ IsPending(last.pendingIn)
    /\ last.scheduled
    /\ pendingFinalization.timeout # last.pendingIn.timeout
    /\ timers = {[id |-> pendingFinalization.timeout, candidateText |-> last.out]}

\* C19: after any final event handled while a finalization was pending, the
\* event being committed or discarded as a duplicate, the timeout of that
\* finalization is no longer set; and a timeout that expires right after a
\* final event is the one that event scheduled.
C19_FinalCancelsPending ==
    /\ (LastIsFinal /\ IsPending(last.pendingIn))
          => \A t \in timers : t.id # last.pendingIn.timeout
    /\ (last.op = "expire" /\ prev.op = "final") => last.timer = nEvents

\* The timeout scheduled by event i is set.
Live(i) == \E t \in timers : t.id = i

\* The commits made by the expiry of the timeout scheduled by event i.
FiredBy(i) == {k \in DOMAIN calls : calls[k].timer = i}

\* A later final event scheduled a finalization of its own.
Superseded(i) == \E j \in (i + 1)..MaxEvents : Live(j) \/ FiredBy(j) # {}

\* C20: in deferred-commit mode a finalization whose timeout is set is
\* eventually committed by its expiry unless a later final supersedes it; the
\* text committed is the candidate, which is the text the scheduling final
\* produced, and no timeout commits more than once.
C20_ExpiryCommitsCandidate ==
    /\ [](last.op = "expire"
            => (/\ calls[nCommits].timer = last.timer
                /\ calls[nCommits].text = last.text
                /\ calls[nCommits].text = lastFinalText))
    /\ [](\A i \in 1..MaxEvents : Cardinality(FiredBy(i)) <= 1)
    /\ \A i \in 1..MaxEvents : Live(i) ~> (FiredBy(i) # {} \/ Superseded(i))

\* The timeout of a final that followed a partial expired and committed its
\* candidate, and the message for it was sent.
C20_Witness ==
    /\ last.op = "expire"
    /\ prev.op = "final"
    /\ prev.scheduled
    /\ prev.partialIn # Empty
    /\ last.timer = nEvents
    /\ calls[nCommits].text = prev.out
    /\ FiredBy(last.timer) = {nCommits}
    /\ \E i \in DOMAIN messages : messages[i].commit = nCommits

\* C21: after the session has ended no message is handed to the transport: the
\* pending timeout is cleared and the messages are those sent before the end.
C21_NoMessageAfterEnd ==
    sessionEnded
    => (/\ timers = {}
        /\ ~IsPending(pendingFinalization)
        /\ last.op = "end"
        /\ Len(messages) = last.sent)

\* C22: an event without a text is dropped: the handler raises no error, and
\* the tracked partial, the accumulation, the last committed text, the
\* pending finalization and the messages are as they were before it.
C22_MalformedDropped ==
    last.op = "malformed"
    => (/\ last.raised = "none"
        /\ last.after = last.before)

\* text is not longer than tracked and begins with the first min(len, 50)
\* characters of tracked.
SharesPrefix(text, tracked) ==
    LET m == Min(Len(tracked), 50)
    IN  /\ Len(text) <= Len(tracked)
        /\ Len(text) >= m
        /\ SubSeq(text, 1, m) = SubSeq(tracked, 1, m)

\* C23: a partial event replaces the tracked text with its text exactly when
\* the text is longer than the tracked text, or the tracked text is empty, or
\* the text does not begin with the first min(len(tracked), 50) characters of
\* the tracked text; otherwise the tracked text is unchanged.
C23_ObserveReplaces ==
    last.op = "partial"
    => latestPartialText =
          IF last.trackedIn # Empty /\ SharesPrefix(last.text, last.trackedIn)
          THEN last.trackedIn
          ELSE last.text

\* A shorter partial that shares the first 50 characters left the tracked
\* text as it was.
C23_Witness ==
    /\ last.op = "partial"
    /\ Len(last.trackedIn) > 50
    /\ Len(last.text) < Len(last.trackedIn)
    /\ SharesPrefix(last.text, last.trackedIn)
    /\ latestPartialText = last.trackedIn
    /\ latestPartialText # last.text

\* The text of the latest commit made before the last event; empty when none.
LatestCommitBefore == IF CommitsBefore = 0 THEN Empty ELSE calls[CommitsBefore].text

\* C24: lastFinalText is always the text of the latest commit (empty before
\* the first); a step that commits nothing (a partial event, a discarded
\* final, a completion) leaves it unchanged; and a final whose reconciled
\* text differs from the latest commit is committed, even when it equals an
\* older one, and in pass-through mode its message is sent at once.
C24_DedupAgainstLatest ==
    /\ [](lastFinalText = IF nCommits = 0 THEN Empty ELSE calls[nCommits].text)
    /\ [][nCommits' = nCommits => lastFinalText' = lastFinalText]_vars
    /\ []((LastIsFinal /\ last.out # LatestCommitBefore)
            => (/\ last.committed
                /\ calls[nCommits].text = last.out
                /\ isTranscriptionOnly => MessagesOf(nCommits) # {}))
    /\ []((LastIsFinal /\ last.out = LatestCommitBefore) => ~last.committed)

\* A text was committed and sent a second time after a different text had
\* been committed in between.
C24_Witness ==
    /\ LastIsFinal
    /\ last.committed
    /\ nCommits = 3
    /\ calls[1].text = last.out
    /\ calls[2].text # last.out
    /\ lastFinalText = last.out
    /\ MessagesOf(3) # {}

\* C25: a final with text G that directly follows a final discarded as a
\* duplicate, G being another text, is committed as exactly G.
C25_NothingLeftByDuplicate ==
    (/\ LastIsFinal
     /\ prev.op = "final"
     /\ ~prev.committed
     /\ last.text # prev.text)
    => (last.committed /\ last.out = last.text)

\* The texts committed so far, in the order of the commits.
CommittedTexts == [c \in 1..nCommits |-> calls[c].text]

\* The handler applied to event e in the run where every translateFinal call
\* has ended before the next event arrives: st holds the tracked partial, the
\* accumulation, the last committed text and the texts committed.
ReplayStep(st, e) ==
    IF e.isPartial
    THEN [st EXCEPT !.tracked = Observe(st.tracked, e.text)]
    ELSE LET a == Accumulate(st.acc, e.text)
             r == Reconcile(a.acc, a.text, st.tracked)
         IN  IF IsDuplicate(r.text, st.lastText)
             THEN [st EXCEPT !.tracked = Empty, !.acc = r.acc]
             ELSE [tracked |-> Empty, acc |-> Empty, lastText |-> r.text,
                   commits |-> Append(st.commits, r.text)]

RECURSIVE Replay(_)
Replay(evs) ==
    IF evs = <<>>
    THEN [tracked |-> Empty, acc |-> Empty, lastText |-> Empty, commits |-> <<>>]
    ELSE ReplayStep(Replay(SubSeq(evs, 1, Len(evs) - 1)), evs[Len(evs)])

\* C26: the texts committed depend on the events alone: whatever the moments
\* at which the translation calls end, they are the texts committed by the run
\* that receives the same events with every call ended before the next event.
C26_CommitsDependOnEventsOnly == CommittedTexts = Replay(events).commits

\* C27: when the word-loss guard fires, accumulatedFinals is set to the
\* tracked partial that replaces the final text, so the text committed and
\* the accumulation are the same value when the text is handed to dispatch.
C27_GuardReseedsAccumulator ==
    (LastIsFinal /\ last.recBranch = "guard")
    => (/\ last.out = last.partialIn
        /\ last.recAcc = last.partialIn
        /\ last.committed => calls[nCommits].text = last.recAcc)

\* The guard replaced a final and its accumulation by a longer partial, which
\* was committed.
C27_Witness ==
    /\ LastIsFinal
    /\ last.recBranch = "guard"
    /\ last.committed
    /\ last.accOut # last.partialIn
    /\ last.recAcc = last.partialIn
    /\ calls[nCommits].text = last.partialIn

C29_PartialTimeMonotone ==
    [][/\ (last'.op = "timedPartial" /\ nEvents' = nEvents + 1 /\ last'.replaced)
          => (latestPartialTime' = now /\ latestPartialTime' >= latestPartialTime)
       /\ latestPartialTime' < latestPartialTime
          => (nResets' = nResets + 1 /\ latestPartialTime' = 0)
       /\ (latestPartialTime' = 0 /\ latestPartialTime # 0)
          => nResets' = nResets + 1]_vars

\* A partial replaced an earlier tracked partial and stored a later time.
C29_Witness ==
    /\ last.op = "timedPartial"
    /\ last.replaced
    /\ last.timeIn > 0
    /\ latestPartialTime > last.timeIn
    /\ latestPartialTime = last.at

\* C30: in the handler the script produced, a call of resetPartialTracking()
\* returns, and it leaves latestPartialText and longestPartialText empty and
\* latestPartialTime and longestPartialTime zero.
C30_InstalledResetClears ==
    (last.op = "ran" /\ last.fn = "resetPartialTracking")
    => /\ last.outcome = "returned"
       /\ latestPartialText = Empty
       /\ longestPartialText = Empty
       /\ latestPartialTime = 0
       /\ longestPartialTime = 0

\* C31: fix_missing_sentences.py writes the handler file only when both
\* final-block markers are found. When one is absent it exits with status 1
\* and the file is as it was, whatever the replacements made in memory; when
\* both are there it exits with status 0 and the file is the content in memory.
\* fix_partial.py does the same with its two markers.
C31_WriteOnlyWithBothMarkers ==
    (last.op = "script" /\ last.name \in {"fix_missing_sentences.py", "fix_partial.py"})
    => LET found ==
               IF last.name = "fix_missing_sentences.py"
               THEN {FinalStartMarker, FinalEndMarker} \subseteq last.before.anchors
               ELSE {FinalStart, AsyncStart} \subseteq last.before.anchors
       IN  /\ found => (last.exit = 0 /\ file = last.memory)
           /\ ~found => (last.exit = 1 /\ file = last.before)

\* fix_missing_sentences.py ran on a file without the end marker: it had made
\* both tracking replacements in memory, and the file was not written.
C31_Witness ==
    /\ last.op = "script"
    /\ last.name = "fix_missing_sentences.py"
    /\ FinalStartMarker \in last.before.anchors
    /\ FinalEndMarker \notin last.before.anchors
    /\ last.exit = 1
    /\ Len(last.memory.patches) = Len(last.before.patches) + 2
    /\ file = last.before
    /\ file # last.memory

ResetScripts == {"add_reset_call.py", "fix_reset_calls.py", "fix_partial_reset_cleanup.py"}

\* The reset calls that stand between the last block of the function and its
\* end.
ResetsAtEnd(tail) ==
    Cardinality({i \in 1..Len(tail) :
                    /\ tail[i] = CallReset
                    /\ \E j \in i + 1..Len(tail) :
                          /\ tail[j] = CloseFunction
                          /\ \A m \in i + 1..j - 1 : tail[m] \in {Blank, Comment}})

====
